---- MODULE Spec2Model ----
(***************************************************************************)
(* A model of the user CRUD service: the Express route table, the six      *)
(* UserController handlers, the zod user schema with formatZodError, and   *)
(* the Prisma calls the handlers make on the user table.                   *)
(*                                                                         *)
(* One step of the model is one HTTP request served to its response.  A    *)
(* handler awaits a single Prisma call, so the requests of concurrent      *)
(* clients interleave exactly as whole steps.                              *)
(***************************************************************************)
EXTENDS Integers, Sequences, FiniteSets, TLC

VARIABLES
    provider,   \* the datasource provider of the Prisma schema (fixed at start)
    users,      \* the rows of the user table
    nextId,     \* the autoincrement counter of the user table
    req,        \* the request served last
    handler,    \* the route callback that served it
    call,       \* the Prisma call that callback made, if any
    thrown,     \* the error that call threw, if any
    res         \* the response sent

vars == <<provider, users, nextId, req, handler, call, thrown, res>>

(***************************************************************************)
(* Bounds of the model.                                                    *)
(***************************************************************************)
\* the number of rows ever created
MaxId == 2

(***************************************************************************)
(* JavaScript strings.  A string is a TLA+ string; CharAt, the order of    *)
(* the code units and the case mapping are spelled out for the characters  *)
(* the requests of the model use.                                          *)
(***************************************************************************)
\* the characters in use, in ascending code-unit order
Alphabet == " +-.0123456789@ABCDEFGHIJKLMNOPQRSTUVWXYZ_abcdefghijklmnopqrstuvwxyz"

UpperCase == "ABCDEFGHIJKLMNOPQRSTUVWXYZ"

LowerCase == "abcdefghijklmnopqrstuvwxyz"

CharAt(s, i) == SubSeq(s, i, i)

\* the index of the first occurrence of character c in s from position i on,
\* 0 when there is none
RECURSIVE IndexFrom(_, _, _)
IndexFrom(s, c, i) ==
    IF i > Len(s) THEN 0 ELSE IF CharAt(s, i) = c THEN i ELSE IndexFrom(s, c, i + 1)

IndexOf(s, c) == IndexFrom(s, c, 1)

Chars(s) == {CharAt(s, i) : i \in 1..Len(s)}

\* the rank of each character of the alphabet
CodeTable == [c \in Chars(Alphabet) |-> IndexOf(Alphabet, c)]

\* the rank of a character in code-unit order (tab and newline sort below space)
CharCode(c) == IF c \in DOMAIN CodeTable THEN CodeTable[c] ELSE 0

\* the lower-case letter of each upper-case letter
LowerTable == [c \in Chars(UpperCase) |-> CharAt(LowerCase, IndexOf(UpperCase, c))]

CharToLower(c) == IF c \in DOMAIN LowerTable THEN LowerTable[c] ELSE c

RECURSIVE toLowerCase(_)
toLowerCase(s) ==
    IF s = "" THEN "" ELSE CharToLower(Head(s)) \o toLowerCase(Tail(s))

IsSpace(c) == c \in {" ", "\t", "\n", "\r"}

RECURSIVE trimStart(_)
trimStart(s) ==
    IF s # "" /\ IsSpace(Head(s)) THEN trimStart(Tail(s)) ELSE s

RECURSIVE trimEnd(_)
trimEnd(s) ==
    IF s # "" /\ IsSpace(CharAt(s, Len(s))) THEN trimEnd(SubSeq(s, 1, Len(s) - 1)) ELSE s

trim(s) == trimEnd(trimStart(s))

startsWith(s, p) == Len(p) <= Len(s) /\ SubSeq(s, 1, Len(p)) = p

Drop(s, n) == SubSeq(s, n + 1, Len(s))

\* the first n characters of s, or all of s when it is shorter
Take(s, n) == SubSeq(s, 1, IF n < Len(s) THEN n ELSE Len(s))

\* s contains q as a substring
includes(s, q) == \E i \in 1..(Len(s) - Len(q) + 1) : SubSeq(s, i, i + Len(q) - 1) = q

\* s sorts at or before t in code-unit order
RECURSIVE StrLte(_, _)
StrLte(s, t) ==
    IF s = "" THEN TRUE
    ELSE IF t = "" THEN FALSE
    ELSE IF CharCode(Head(s)) # CharCode(Head(t)) THEN CharCode(Head(s)) < CharCode(Head(t))
    ELSE StrLte(Tail(s), Tail(t))

RECURSIVE join(_, _)
join(list, sep) ==
    IF list = <<>> THEN ""
    ELSE IF Len(list) = 1 THEN list[1]
    ELSE list[1] \o sep \o join(Tail(list), sep)

(***************************************************************************)
(* JavaScript numbers, as far as the id check needs them: NaN, an          *)
(* infinity, or the finite value (-1)^neg * m * 10^e.                      *)
(***************************************************************************)
NaN == [k |-> "nan", neg |-> FALSE, m |-> 0, e |-> 0]

Infinite(neg) == [k |-> "inf", neg |-> neg, m |-> 0, e |-> 0]

Finite(neg, m, e) == [k |-> "fin", neg |-> neg, m |-> m, e |-> e]

RECURSIVE Pow(_, _)
Pow(b, n) == IF n <= 0 THEN 1 ELSE b * Pow(b, n - 1)

Digits == "0123456789abcdefghijklmnopqrstuvwxyz"

\* the value of each digit character
DigitTable == [c \in Chars(Digits) |-> IndexOf(Digits, c) - 1]

\* the value of a digit character, -1 when it is none
DigitVal(c) == IF CharToLower(c) \in DOMAIN DigitTable THEN DigitTable[CharToLower(c)] ELSE -1

IsDigit(c, radix) == DigitVal(c) >= 0 /\ DigitVal(c) < radix

\* the length of the longest prefix of s made of digits of the radix
RECURSIVE DigitPrefix(_, _)
DigitPrefix(s, radix) ==
    IF s # "" /\ IsDigit(Head(s), radix) THEN 1 + DigitPrefix(Tail(s), radix) ELSE 0

RECURSIVE DigitsValue(_, _)
DigitsValue(s, radix) ==
    IF s = "" THEN 0
    ELSE DigitsValue(SubSeq(s, 1, Len(s) - 1), radix) * radix + DigitVal(CharAt(s, Len(s)))

\* StrDecimalLiteral without its sign: digits, fraction, exponent
UnsignedDecimal(neg, s) ==
    LET ip == DigitPrefix(s, 10)
        afterInt == Drop(s, ip)
        hasDot == startsWith(afterInt, ".")
        afterDot == IF hasDot THEN Drop(afterInt, 1) ELSE afterInt
        fp == IF hasDot THEN DigitPrefix(afterDot, 10) ELSE 0
        rest == Drop(afterDot, fp)
        mant == DigitsValue(SubSeq(s, 1, ip) \o SubSeq(afterDot, 1, fp), 10)
        hasExp == rest # "" /\ CharToLower(Head(rest)) = "e"
        expBody == IF hasExp THEN Drop(rest, 1) ELSE ""
        expNeg == startsWith(expBody, "-")
        expDigits == IF startsWith(expBody, "-") \/ startsWith(expBody, "+")
                     THEN Drop(expBody, 1) ELSE expBody
        ep == DigitPrefix(expDigits, 10)
        expVal == DigitsValue(expDigits, 10)
    IN  IF ip + fp = 0 THEN NaN
        ELSE IF rest = "" THEN Finite(neg, mant, 0 - fp)
        ELSE IF hasExp /\ ep > 0 /\ ep = Len(expDigits)
             THEN Finite(neg, mant, (IF expNeg THEN 0 - expVal ELSE expVal) - fp)
        ELSE NaN

\* a 0x, 0o or 0b literal of the given radix, prefix removed
RadixLiteral(s, radix) ==
    IF s # "" /\ DigitPrefix(s, radix) = Len(s) THEN Finite(FALSE, DigitsValue(s, radix), 0)
    ELSE NaN

\* Number(s): the StringToNumber conversion isNaN applies to its argument
Number(s) ==
    LET t == trim(s)
        low == toLowerCase(Take(t, 2))
        neg == startsWith(t, "-")
        body == IF startsWith(t, "-") \/ startsWith(t, "+") THEN Drop(t, 1) ELSE t
    IN  IF t = "" THEN Finite(FALSE, 0, 0)
        ELSE IF low = "0x" THEN RadixLiteral(Drop(t, 2), 16)
        ELSE IF low = "0o" THEN RadixLiteral(Drop(t, 2), 8)
        ELSE IF low = "0b" THEN RadixLiteral(Drop(t, 2), 2)
        ELSE IF body = "Infinity" THEN Infinite(neg)
        ELSE UnsignedDecimal(neg, body)

isNaN(s) == Number(s).k = "nan"

\* parseInt(s) with no radix argument
parseInt(s) ==
    LET t == trimStart(s)
        neg == startsWith(t, "-")
        body == IF startsWith(t, "-") \/ startsWith(t, "+") THEN Drop(t, 1) ELSE t
        hex == toLowerCase(Take(body, 2)) = "0x"
        radix == IF hex THEN 16 ELSE 10
        digits == IF hex THEN Drop(body, 2) ELSE body
        n == DigitPrefix(digits, radix)
    IN  IF n = 0 THEN NaN ELSE Finite(neg, DigitsValue(SubSeq(digits, 1, n), radix), 0)

\* the integer part of a finite number (rounding toward zero)
Trunc(x) ==
    LET mag == IF x.e >= 0 THEN x.m * Pow(10, x.e) ELSE x.m \div Pow(10, 0 - x.e)
    IN  IF x.neg THEN 0 - mag ELSE mag

\* the decimal string of an integer, as JSON and template strings print an id
RECURSIVE NatToString(_)
NatToString(n) ==
    IF n < 10 THEN CharAt(Digits, n + 1) ELSE NatToString(n \div 10) \o CharAt(Digits, (n % 10) + 1)

IntToString(n) == IF n < 0 THEN "-" \o NatToString(0 - n) ELSE NatToString(n)

(***************************************************************************)
(* JSON values and request bodies.  A body is what express.json() leaves   *)
(* in req.body: an object (its fields a function from keys to values) or   *)
(* an array.                                                               *)
(***************************************************************************)
JStr(s) == [t |-> "string", s |-> s, n |-> 0]

JNum(n) == [t |-> "number", s |-> "", n |-> n]

ObjectBody(fields) == [kind |-> "object", fields |-> fields]

ArrayBody == [kind |-> "array", fields |-> <<>>]

Has(obj, key) == key \in DOMAIN obj

(***************************************************************************)
(* utils/globalZodSchema.js: userSchema.                                   *)
(***************************************************************************)
MinNameLength == 2

NameTooShort == "Name must be at least 2 characters"

EmailInvalid == "Email must be valid"

\* zod's message for a key the input lacks
Required == "Required"

\* zod's message for a value of another type than the one expected
ExpectedReceived(expected, received) == "Expected " \o expected \o ", received " \o received

IsLetter(c) == DigitVal(c) >= 10

IsAlnum(c) == DigitVal(c) >= 0

\* the pieces of s between the occurrences of the one-character separator
RECURSIVE split(_, _)
split(s, sep) ==
    IF IndexOf(s, sep) = 0 THEN <<s>>
    ELSE <<SubSeq(s, 1, IndexOf(s, sep) - 1)>> \o split(Drop(s, IndexOf(s, sep)), sep)

AllChars(s, P(_)) == \A i \in 1..Len(s) : P(CharAt(s, i))

IsLocalChar(c) == IsAlnum(c) \/ c \in {"_", "'", "+", "-", "."}

IsLocalEnd(c) == IsAlnum(c) \/ c \in {"_", "+", "-"}

IsLabelChar(c) == IsAlnum(c) \/ c = "-"

\* z.string().email(): zod's pattern for an e-mail address
IsEmail(s) ==
    LET parts == split(s, "@")
        local == parts[1]
        labels == split(parts[2], ".")
    IN  /\ Len(parts) = 2
        /\ ~startsWith(s, ".")
        /\ ~includes(s, "..")
        /\ local # ""
        /\ AllChars(local, IsLocalChar)
        /\ IsLocalEnd(CharAt(local, Len(local)))
        /\ Len(labels) >= 2
        /\ \A i \in 1..(Len(labels) - 1) :
              /\ labels[i] # ""
              /\ IsAlnum(Head(labels[i]))
              /\ AllChars(labels[i], IsLabelChar)
        /\ Len(labels[Len(labels)]) >= 2
        /\ AllChars(labels[Len(labels)], IsLetter)

Issue(path, message) == [path |-> path, message |-> message]

\* the issues of the name key: z.string().min(2, ...)
NameIssues(fields) ==
    IF ~Has(fields, "name") THEN <<Issue("name", Required)>>
    ELSE IF fields["name"].t # "string"
         THEN <<Issue("name", ExpectedReceived("string", fields["name"].t))>>
    ELSE IF Len(fields["name"].s) < MinNameLength THEN <<Issue("name", NameTooShort)>>
    ELSE <<>>

\* the issues of the email key: z.string().email(...)
EmailIssues(fields) ==
    IF ~Has(fields, "email") THEN <<Issue("email", Required)>>
    ELSE IF fields["email"].t # "string"
         THEN <<Issue("email", ExpectedReceived("string", fields["email"].t))>>
    ELSE IF ~IsEmail(fields["email"].s) THEN <<Issue("email", EmailInvalid)>>
    ELSE <<>>

\* the keys of the schema's shape: z.object strips every other key of the input
SchemaKeys == {"name", "email"}

\* a variant of safeParse that gives up at the first issue (C1 must tell it apart)
safeParse_FirstIssue(body) ==
    LET issues == IF body.kind # "object"
                  THEN <<Issue("", ExpectedReceived("object", body.kind))>>
                  ELSE NameIssues(body.fields) \o EmailIssues(body.fields)
    IN  IF issues = <<>>
        THEN [success |-> TRUE, data |-> [k \in SchemaKeys |-> body.fields[k]], issues |-> <<>>]
        ELSE [success |-> FALSE, data |-> <<>>, issues |-> <<Head(issues)>>]

\* userSchema.safeParse(body): every key is checked, the issues are collected
safeParse(body) ==
    LET issues == IF body.kind # "object"
                  THEN <<Issue("", ExpectedReceived("object", body.kind))>>
                  ELSE NameIssues(body.fields) \o EmailIssues(body.fields)
    IN  IF issues = <<>>
        THEN [success |-> TRUE, data |-> [k \in SchemaKeys |-> body.fields[k]], issues |-> <<>>]
        ELSE [success |-> FALSE, data |-> <<>>, issues |-> issues]

\* the messages of the issues of one path, in order
RECURSIVE MessagesAt(_, _)
MessagesAt(issues, path) ==
    IF issues = <<>> THEN <<>>
    ELSE (IF Head(issues).path = path THEN <<Head(issues).message>> ELSE <<>>)
         \o MessagesAt(Tail(issues), path)

\* zodError.format(): _errors holds the top-level messages, and every key with
\* an issue holds its own messages
format(issues) ==
    [k \in {"_errors"} \cup {issues[i].path : i \in {j \in 1..Len(issues) : issues[j].path # ""}}
        |-> MessagesAt(issues, IF k = "_errors" THEN "" ELSE k)]

(***************************************************************************)
(* utils/formatZodError.js                                                 *)
(***************************************************************************)
\* the display string of one field's messages
FieldMessage(field, fieldErrors) ==
    LET error == join(fieldErrors, ", ")
    IN  IF trim(toLowerCase(error)) = "required"
        THEN "The " \o field \o " field is required"
        ELSE error

formatZodError(issues) ==
    LET formatted == format(issues)
        fields == {f \in DOMAIN formatted : f # "_errors" /\ Len(formatted[f]) > 0}
    IN  [f \in fields |-> FieldMessage(f, formatted[f])]

(***************************************************************************)
(* The persistence client: the Prisma calls on the user table.  A row is   *)
(* [id, name, email]; id is the autoincremented primary key.               *)
(***************************************************************************)
Providers == {"sqlite", "postgresql", "mysql"}

Row(id, name, email) == [id |-> id, name |-> name, email |-> email]

NoRow == Row(0, "", "")

NoError == [thrown |-> FALSE, message |-> "", cause |-> ""]

\* an error object with its message and, when it has one, its meta.cause
Error(message, cause) == [thrown |-> TRUE, message |-> message, cause |-> cause]

\* what the database connection does to a call: nothing, a failure with a
\* message, or a rejection that carries no message at all
Faults == {"none", "unreachable", "bare"}

FaultError(fault) ==
    IF fault = "unreachable" THEN Error("Can't reach database server", "") ELSE Error("", "")

ValidationError(what) == Error("Invalid prisma.user invocation: " \o what, "")

RecordNotFound(what) ==
    Error("An operation failed because it depends on one or more records that were required but not found. "
              \o what, what)

UniqueConstraintFailed == Error("Unique constraint failed on the fields: (id)", "")

Db == [provider |-> provider, users |-> users, nextId |-> nextId]

\* the outcome of a Prisma call: the error thrown or the row(s) returned, and
\* the table after it
Outcome(db, error, row, rows) ==
    [error |-> error, row |-> row, rows |-> rows, users |-> db.users, nextId |-> db.nextId]

Throws(db, error) == Outcome(db, error, NoRow, {})

RowsWithId(table, id) == {u \in table : u.id = id}

\* the integer a where: {id} argument selects by
IdValue(id) == Trunc(id)

\* the data argument lacks a column or holds a value of the wrong type
BadData(data, required) ==
    \/ \E k \in required : ~Has(data, k)
    \/ \E k \in DOMAIN data \cap {"name", "email"} : data[k].t # "string"
    \/ Has(data, "id") /\ data["id"].t # "number"
    \/ DOMAIN data \ {"id", "name", "email"} # {}

\* prisma.user.create({data})
PrismaCreate(db, data, fault) ==
    LET id == IF Has(data, "id") THEN data["id"].n ELSE db.nextId
        row == Row(id, data["name"].s, data["email"].s)
    IN  IF BadData(data, {"name", "email"}) THEN Throws(db, ValidationError("data"))
        ELSE IF fault # "none" THEN Throws(db, FaultError(fault))
        ELSE IF RowsWithId(db.users, id) # {} THEN Throws(db, UniqueConstraintFailed)
        ELSE [error |-> NoError, row |-> row, rows |-> {},
              users |-> db.users \cup {row},
              nextId |-> IF id >= db.nextId THEN id + 1 ELSE db.nextId]

\* prisma.user.findUnique({where: {id}})
PrismaFindUnique(db, id, fault) ==
    IF id.k # "fin" THEN Throws(db, ValidationError("where.id"))
    ELSE IF fault # "none" THEN Throws(db, FaultError(fault))
    ELSE IF RowsWithId(db.users, IdValue(id)) = {} THEN Outcome(db, NoError, NoRow, {})
    ELSE Outcome(db, NoError, CHOOSE u \in db.users : u.id = IdValue(id), {})

\* prisma.user.update({where: {id}, data})
PrismaUpdate(db, id, data, fault) ==
    LET old == CHOOSE u \in db.users : u.id = IdValue(id)
        new == Row(IF Has(data, "id") THEN data["id"].n ELSE old.id,
                   IF Has(data, "name") THEN data["name"].s ELSE old.name,
                   IF Has(data, "email") THEN data["email"].s ELSE old.email)
    IN  IF id.k # "fin" THEN Throws(db, ValidationError("where.id"))
        ELSE IF BadData(data, {}) THEN Throws(db, ValidationError("data"))
        ELSE IF fault # "none" THEN Throws(db, FaultError(fault))
        ELSE IF RowsWithId(db.users, IdValue(id)) = {}
             THEN Throws(db, RecordNotFound("Record to update not found."))
        ELSE IF new.id # old.id /\ RowsWithId(db.users, new.id) # {}
             THEN Throws(db, UniqueConstraintFailed)
        ELSE [error |-> NoError, row |-> new, rows |-> {},
              users |-> (db.users \ {old}) \cup {new}, nextId |-> db.nextId]

\* prisma.user.delete({where: {id}})
PrismaDelete(db, id, fault) ==
    LET old == CHOOSE u \in db.users : u.id = IdValue(id)
    IN  IF id.k # "fin" THEN Throws(db, ValidationError("where.id"))
        ELSE IF fault # "none" THEN Throws(db, FaultError(fault))
        ELSE IF RowsWithId(db.users, IdValue(id)) = {}
             THEN Throws(db, RecordNotFound("Record to delete does not exist."))
        ELSE [error |-> NoError, row |-> old, rows |-> {},
              users |-> db.users \ {old}, nextId |-> db.nextId]

\* contains: LIKE, which ignores ASCII case on SQLite and under MySQL's default
\* collation and respects it on PostgreSQL unless mode is "insensitive"
Contains(prov, mode, value, q) ==
    IF prov = "postgresql" /\ mode # "insensitive"
    THEN includes(value, q)
    ELSE includes(toLowerCase(value), toLowerCase(q))

\* lte: the column's <= comparison, by code unit except under MySQL's default
\* case-insensitive collation
Lte(prov, value, bound) ==
    IF prov = "mysql" THEN StrLte(toLowerCase(value), toLowerCase(bound))
    ELSE StrLte(value, bound)

\* one StringFilter: every condition it holds must be met
MatchesFilter(prov, value, filter) ==
    LET mode == IF Has(filter, "mode") THEN filter["mode"] ELSE "default"
    IN  /\ Has(filter, "contains") => Contains(prov, mode, value, filter["contains"])
        /\ Has(filter, "lte") => Lte(prov, value, filter["lte"])

\* a where argument: no condition at all, or OR over per-column filters
NoWhere == [all |-> TRUE, OR |-> <<>>]

WhereOr(conditions) == [all |-> FALSE, OR |-> conditions]

Condition(column, filter) == [column |-> column, filter |-> filter]

MatchesWhere(prov, u, where) ==
    \/ where.all
    \/ \E i \in 1..Len(where.OR) :
          MatchesFilter(prov, u[where.OR[i].column], where.OR[i].filter)

\* prisma.user.findMany({where})
PrismaFindMany(db, where, fault) ==
    IF fault # "none" THEN Throws(db, FaultError(fault))
    ELSE Outcome(db, NoError, NoRow, {u \in db.users : MatchesWhere(db.provider, u, where)})

(***************************************************************************)
(* Requests, responses and the record of the Prisma call a handler made.   *)
(***************************************************************************)
NoQuery == [present |-> FALSE, isString |-> FALSE, s |-> ""]

StringQuery(s) == [present |-> TRUE, isString |-> TRUE, s |-> s]

\* ?query=a&query=b reaches the handler as an array
ArrayQuery == [present |-> TRUE, isString |-> FALSE, s |-> ""]

Request(method, path, query, body) ==
    [method |-> method, path |-> path, query |-> query, body |-> body]

NoParam == [present |-> FALSE, s |-> ""]

Param(s) == [present |-> TRUE, s |-> s]

NoCall == [op |-> "none", id |-> NaN, data |-> <<>>, where |-> NoWhere]

Call(op, id, data, where) == [op |-> op, id |-> id, data |-> data, where |-> where]

Response(status, kind, user, list, errors, error) ==
    [status |-> status, kind |-> kind, user |-> user, list |-> list,
     errors |-> errors, error |-> error]

\* res.status(n).json(user)
JsonUser(status, user) == Response(status, "user", user, {}, <<>>, "")

\* res.status(n).json(users)
JsonList(status, list) == Response(status, "list", NoRow, list, <<>>, "")

\* res.status(n).json({ errors })
JsonErrors(status, errors) == Response(status, "errors", NoRow, {}, errors, "")

\* res.status(n).json({ error })
JsonError(status, error) == Response(status, "error", NoRow, {}, <<>>, error)

\* res.status(n).send()
Empty(status) == Response(status, "empty", NoRow, {}, <<>>, "")

\* a || b on strings
OrElse(a, b) == IF a # "" THEN a ELSE b

InternalServerError == "Internal Server Error"

\* what serving a request leaves behind: the response, the Prisma call made,
\* the error it threw and the table after it
Served(response, made, out) ==
    [res |-> response, call |-> made, thrown |-> out.error,
     users |-> out.users, nextId |-> out.nextId]

\* a response sent without any Prisma call
Rejected(db, response) == Served(response, NoCall, Throws(db, NoError))

(***************************************************************************)
(* controller/UserController.js: the six handlers.  Each maps the table,   *)
(* the request (with its route params) and the connection's fault to what  *)
(* it leaves behind.                                                       *)
(***************************************************************************)
\* a variant of the id check that tests parseInt(id) (C3 must tell it apart)
InvalidId_ParseInt(id) == ~id.present \/ id.s = "" \/ parseInt(id.s).k = "nan"

\* !id || isNaN(id)
InvalidId(id) == ~id.present \/ id.s = "" \/ isNaN(id.s)

\* !query || typeof query !== "string" || query.trim() === ""
MissingQuery(query) ==
    ~query.present \/ (query.isString /\ query.s = "") \/ ~query.isString \/ trim(query.s) = ""

\* a variant that hands req.body itself to create and update (C7 must tell it
\* apart)
ParsedData_RawBody(result, body) == body.fields

\* the data handed to create and update: result.data, the parsed object
ParsedData(result, body) == result.data

\* the where argument of the search
SearchWhere(query) ==
    WhereOr(<<Condition("name", ("contains" :> query @@ "lte" :> "insensitive")),
              Condition("email", ("contains" :> query @@ "lte" :> "insensitive"))>>)

\* a variant in which every catch block answers error.message or the generic
\* message (C6 must tell it apart)
CatchMessage_Uniform(name, error) == OrElse(error.message, InternalServerError)

\* the error string of the 500 response of each handler's catch block
CatchMessage(name, error) ==
    IF name = "createUser" THEN OrElse(error.message, InternalServerError)
    ELSE IF name = "deleteUser" THEN OrElse(error.cause, InternalServerError)
    ELSE InternalServerError

createUser(db, r, params, fault) ==
    LET result == safeParse(r.body)
        data == ParsedData(result, r.body)
        out == PrismaCreate(db, data, fault)
        made == Call("create", NaN, data, NoWhere)
    IN  IF ~result.success THEN Rejected(db, JsonErrors(400, formatZodError(result.issues)))
        ELSE IF out.error.thrown
             THEN Served(JsonError(500, CatchMessage("createUser", out.error)), made, out)
        ELSE Served(JsonUser(201, out.row), made, out)

\* a variant of getUser with the test of the row found inverted (C5 must tell it
\* apart)
getUser_Inverted(db, r, params, fault) ==
    LET id == params.id
        out == PrismaFindUnique(db, parseInt(id.s), fault)
        made == Call("findUnique", parseInt(id.s), <<>>, NoWhere)
    IN  IF InvalidId(id) THEN Rejected(db, JsonError(400, "Invalid user ID"))
        ELSE IF out.error.thrown
             THEN Served(JsonError(500, CatchMessage("getUser", out.error)), made, out)
        ELSE IF out.row # NoRow THEN Served(JsonError(404, "User not found"), made, out)
        ELSE Served(JsonUser(200, out.row), made, out)

getUser(db, r, params, fault) ==
    LET id == params.id
        out == PrismaFindUnique(db, parseInt(id.s), fault)
        made == Call("findUnique", parseInt(id.s), <<>>, NoWhere)
    IN  IF InvalidId(id) THEN Rejected(db, JsonError(400, "Invalid user ID"))
        ELSE IF out.error.thrown
             THEN Served(JsonError(500, CatchMessage("getUser", out.error)), made, out)
        ELSE IF out.row = NoRow THEN Served(JsonError(404, "User not found"), made, out)
        ELSE Served(JsonUser(200, out.row), made, out)

\* a variant of updateUser that answers 404 when the row to update is not found
\* (C9 must tell it apart)
updateUser_NotFound404(db, r, params, fault) ==
    LET id == params.id
        result == safeParse(r.body)
        data == ParsedData(result, r.body)
        out == PrismaUpdate(db, parseInt(id.s), data, fault)
        made == Call("update", parseInt(id.s), data, NoWhere)
    IN  IF InvalidId(id) THEN Rejected(db, JsonError(400, "Invalid user ID"))
        ELSE IF ~result.success
             THEN Rejected(db, JsonErrors(400, formatZodError(result.issues)))
        ELSE IF out.error.thrown /\ out.error.cause # ""
             THEN Served(JsonError(404, "User not found"), made, out)
        ELSE IF out.error.thrown
             THEN Served(JsonError(500, CatchMessage("updateUser", out.error)), made, out)
        ELSE Served(JsonUser(200, out.row), made, out)

updateUser(db, r, params, fault) ==
    LET id == params.id
        result == safeParse(r.body)
        data == ParsedData(result, r.body)
        out == PrismaUpdate(db, parseInt(id.s), data, fault)
        made == Call("update", parseInt(id.s), data, NoWhere)
    IN  IF InvalidId(id) THEN Rejected(db, JsonError(400, "Invalid user ID"))
        ELSE IF ~result.success
             THEN Rejected(db, JsonErrors(400, formatZodError(result.issues)))
        ELSE IF out.error.thrown
             THEN Served(JsonError(500, CatchMessage("updateUser", out.error)), made, out)
        ELSE Served(JsonUser(200, out.row), made, out)

\* a variant of deleteUser that answers 200 with the row deleted (C4 must tell
\* it apart)
deleteUser_Replies200(db, r, params, fault) ==
    LET id == params.id
        out == PrismaDelete(db, parseInt(id.s), fault)
        made == Call("delete", parseInt(id.s), <<>>, NoWhere)
    IN  IF InvalidId(id) THEN Rejected(db, JsonError(400, "Invalid user ID"))
        ELSE IF out.error.thrown
             THEN Served(JsonError(500, CatchMessage("deleteUser", out.error)), made, out)
        ELSE Served(JsonUser(200, out.row), made, out)

deleteUser(db, r, params, fault) ==
    LET id == params.id
        out == PrismaDelete(db, parseInt(id.s), fault)
        made == Call("delete", parseInt(id.s), <<>>, NoWhere)
    IN  IF InvalidId(id) THEN Rejected(db, JsonError(400, "Invalid user ID"))
        ELSE IF out.error.thrown
             THEN Served(JsonError(500, CatchMessage("deleteUser", out.error)), made, out)
        ELSE Served(Empty(204), made, out)

listUsers(db, r, params, fault) ==
    LET out == PrismaFindMany(db, NoWhere, fault)
        made == Call("findMany", NaN, <<>>, NoWhere)
    IN  IF out.error.thrown
        THEN Served(JsonError(500, CatchMessage("listUsers", out.error)), made, out)
        ELSE Served(JsonList(200, out.rows), made, out)

searchUsers(db, r, params, fault) ==
    LET query == r.query
        out == PrismaFindMany(db, SearchWhere(query.s), fault)
        made == Call("findMany", NaN, <<>>, SearchWhere(query.s))
    IN  IF MissingQuery(query) THEN Rejected(db, JsonError(400, "Query parameter is required"))
        ELSE IF out.error.thrown
             THEN Served(JsonError(500, CatchMessage("searchUsers", out.error)), made, out)
        ELSE Served(JsonList(200, out.rows), made, out)

(***************************************************************************)
(* routes/userRoutes.js and index.js: the route table, mounted under /api. *)
(* A path is the sequence of its decoded segments.                         *)
(***************************************************************************)
Route(method, pattern, name) == [method |-> method, pattern |-> pattern, handler |-> name]

\* a variant of the table with /users/:id registered ahead of /users/search (C8
\* must tell it apart)
userRoutes_ParamFirst ==
    << Route("POST", <<"users">>, "createUser"),
       Route("GET", <<"users">>, "listUsers"),
       Route("GET", <<"users", ":id">>, "getUser"),
       Route("GET", <<"users", "search">>, "searchUsers"),
       Route("PUT", <<"users", ":id">>, "updateUser"),
       Route("DELETE", <<"users", ":id">>, "deleteUser") >>

userRoutes ==
    << Route("POST", <<"users">>, "createUser"),
       Route("GET", <<"users">>, "listUsers"),
       Route("GET", <<"users", "search">>, "searchUsers"),
       Route("GET", <<"users", ":id">>, "getUser"),
       Route("PUT", <<"users", ":id">>, "updateUser"),
       Route("DELETE", <<"users", ":id">>, "deleteUser") >>

\* app.use("/api", userRoutes)
MountPath == <<"api">>

IsParam(segment) == startsWith(segment, ":")

\* a pattern matches a path of its length whose segments equal its literal
\* segments (Express compares them ignoring case); a :param takes any segment
Matches(pattern, path) ==
    /\ Len(pattern) = Len(path)
    /\ \A i \in 1..Len(pattern) :
          IsParam(pattern[i]) \/ toLowerCase(pattern[i]) = toLowerCase(path[i])

\* the route params a matching pattern binds
ParamsOf(pattern, path) ==
    IF \E i \in 1..Len(pattern) : pattern[i] = ":id"
    THEN [id |-> Param(path[CHOOSE i \in 1..Len(pattern) : pattern[i] = ":id"])]
    ELSE [id |-> NoParam]

RouteMatches(route, r) ==
    /\ route.method = r.method
    /\ Len(r.path) >= Len(MountPath)
    /\ Matches(MountPath, SubSeq(r.path, 1, Len(MountPath)))
    /\ Matches(route.pattern, Drop(r.path, Len(MountPath)))

\* the first route registered that matches the request, or none
Dispatch(r) ==
    LET hits == {i \in 1..Len(userRoutes) : RouteMatches(userRoutes[i], r)}
        first == CHOOSE i \in hits : \A j \in hits : i <= j
    IN  IF hits = {} THEN [handler |-> "none", params |-> [id |-> NoParam]]
        ELSE [handler |-> userRoutes[first].handler,
              params |-> ParamsOf(userRoutes[first].pattern, Drop(r.path, Len(MountPath)))]

(***************************************************************************)
(* The requests clients send.                                              *)
(***************************************************************************)
EmptyBody == ObjectBody(<<>>)

Fields(name, email) == ("name" :> name @@ "email" :> email)

Bodies ==
    { EmptyBody,
      ArrayBody,
      ObjectBody(Fields(JStr("Al"), JStr("al@b.co"))),
      ObjectBody(Fields(JStr("zed"), JStr("zed@b.co"))),
      ObjectBody(Fields(JStr("Zoe"), JStr("Al@b.co")) @@ ("id" :> JNum(9))),
      ObjectBody(Fields(JStr("A"), JStr("al@b.co"))),
      ObjectBody(Fields(JNum(7), JStr("al@b.co"))),
      ObjectBody(Fields(JStr("Al"), JStr("zed"))),
      ObjectBody(Fields(JStr("A"), JStr("zed")) @@ ("id" :> JNum(9))),
      ObjectBody(Fields(JStr("zed"), JNum(7))),
      ObjectBody("email" :> JStr("al@b.co")),
      ObjectBody("name" :> JStr("Al")) }

\* the last path segment of the requests on one user: the ids in use, and the
\* strings the id check has to tell apart
IdSegments ==
    {IntToString(i) : i \in 1..(MaxId + 1)}
        \cup {"abc", "1abc", "1.5", "1e3", "0x10", "Infinity", " "}

Queries ==
    {NoQuery, ArrayQuery, StringQuery(""), StringQuery(" "), StringQuery("al"),
     StringQuery("AL"), StringQuery("ze"), StringQuery("b.co")}

Requests ==
    {Request("POST", <<"api", "users">>, NoQuery, b) : b \in Bodies}
        \cup {Request("GET", <<"api", "users">>, NoQuery, EmptyBody)}
        \cup {Request("GET", <<"api", "users", "search">>, q, EmptyBody) : q \in Queries}
        \cup {Request("GET", <<"api", "users", s>>, NoQuery, EmptyBody) : s \in IdSegments}
        \cup {Request("PUT", <<"api", "users", s>>, NoQuery, b) : s \in IdSegments, b \in Bodies}
        \cup {Request("DELETE", <<"api", "users", s>>, NoQuery, EmptyBody) : s \in IdSegments}
        \cup {Request("DELETE", <<"api", "users">>, NoQuery, EmptyBody),
              Request("GET", <<"api", "users", "1", "posts">>, NoQuery, EmptyBody)}

(***************************************************************************)
(* The state machine.  A step serves one request to its response, or       *)
(* ends the exchange: nothing of a request outlives it but the table.      *)
(***************************************************************************)
Handlers == {"createUser", "getUser", "updateUser", "deleteUser", "listUsers", "searchUsers", "none"}

\* the requests the route table hands to each callback
Routed == [h \in Handlers |-> {r \in Requests : Dispatch(r).handler = h}]

\* the route params of each request
Params == [r \in Requests |-> Dispatch(r).params]

NoRequest == Request("", <<>>, NoQuery, EmptyBody)

Init ==
    /\ provider \in Providers
    /\ users = {}
    /\ nextId = 1
    /\ req = NoRequest
    /\ handler = "idle"
    /\ call = NoCall
    /\ thrown = NoError
    /\ res = Empty(0)

\* the request was served by the named callback, which left `served` behind
Commit(r, name, served) ==
    /\ handler = "idle"
    /\ req' = r
    /\ handler' = name
    /\ call' = served.call
    /\ thrown' = served.thrown
    /\ res' = served.res
    /\ users' = served.users
    /\ nextId' = served.nextId
    /\ UNCHANGED provider

CreateUser(r, fault) ==
    /\ nextId <= MaxId
    /\ Commit(r, "createUser", createUser(Db, r, Params[r], fault))

GetUser(r, fault) == Commit(r, "getUser", getUser(Db, r, Params[r], fault))

UpdateUser(r, fault) == Commit(r, "updateUser", updateUser(Db, r, Params[r], fault))

DeleteUser(r, fault) == Commit(r, "deleteUser", deleteUser(Db, r, Params[r], fault))

ListUsers(r, fault) == Commit(r, "listUsers", listUsers(Db, r, Params[r], fault))

SearchUsers(r, fault) == Commit(r, "searchUsers", searchUsers(Db, r, Params[r], fault))

\* no route matches: Express answers 404 itself
Unrouted(r) == Commit(r, "none", Rejected(Db, Response(404, "html", NoRow, {}, <<>>, "")))

\* the response is out and the exchange is over
Finish ==
    /\ handler # "idle"
    /\ req' = NoRequest
    /\ handler' = "idle"
    /\ call' = NoCall
    /\ thrown' = NoError
    /\ res' = Empty(0)
    /\ UNCHANGED <<provider, users, nextId>>

Next ==
    \/ \E r \in Routed["createUser"], fault \in Faults : CreateUser(r, fault)
    \/ \E r \in Routed["getUser"], fault \in Faults : GetUser(r, fault)
    \/ \E r \in Routed["updateUser"], fault \in Faults : UpdateUser(r, fault)
    \/ \E r \in Routed["deleteUser"], fault \in Faults : DeleteUser(r, fault)
    \/ \E r \in Routed["listUsers"], fault \in Faults : ListUsers(r, fault)
    \/ \E r \in Routed["searchUsers"], fault \in Faults : SearchUsers(r, fault)
    \/ \E r \in Routed["none"] : Unrouted(r)
    \/ Finish

Spec == Init /\ [][Next]_vars

(***************************************************************************)
(* Vocabulary of the properties.                                           *)
(***************************************************************************)
\* a step that serves a request with the named callback
Serves(name) == handler = "idle" /\ handler' = name

\* the :id segment of a request on one user
IdSegment(r) == r.path[Len(r.path)]

\* the error is the connection's own failure, not the answer to the call
ConnectionFailure(error) == error \in {FaultError(f) : f \in Faults \ {"none"}}

Ids(table) == {u.id : u \in table}

\* a key of the user schema that the body lacks or holds an unfit value for
FieldFails(fields, f) ==
    \/ ~Has(fields, f)
    \/ fields[f].t # "string"
    \/ f = "name" /\ Len(fields[f].s) < 2
    \/ f = "email" /\ ~IsEmail(fields[f].s)

FailingFields(body) == {f \in {"name", "email"} : FieldFails(body.fields, f)}

BodyFails(body) == body.kind # "object" \/ FailingFields(body) # {}

\* the one message the response owes to a failing field
OwedMessage(fields, f) ==
    IF ~Has(fields, f) THEN "The " \o f \o " field is required"
    ELSE IF fields[f].t # "string" THEN "Expected string, received " \o fields[f].t
    ELSE IF f = "name" THEN "Name must be at least 2 characters"
    ELSE "Email must be valid"

\* the step is a create, or an update with an id that passes the id check
ValidatesBody ==
    \/ Serves("createUser")
    \/ Serves("updateUser") /\ ~isNaN(IdSegment(req')) /\ IdSegment(req') # ""

\* nothing was asked of the persistence client and the table is as it was
NoPersistence == call' = NoCall /\ users' = users /\ nextId' = nextId

(***************************************************************************)
(* C1.  As claimed: every body that fails the user schema, whatever its    *)
(* shape, gets 400 {errors} with exactly one message for each failing      *)
(* field (a field the body lacks included) and none for the others, and    *)
(* no persistence call is made.                                            *)
(***************************************************************************)
C1_EveryFailingBody ==
    [][ (ValidatesBody /\ BodyFails(req'.body)) =>
            /\ res'.status = 400
            /\ res'.kind = "errors"
            /\ DOMAIN res'.errors = FailingFields(req'.body)
            /\ NoPersistence ]_vars

(***************************************************************************)
(* C1, amended.  Every failing body gets 400 {errors} and no persistence   *)
(* call is made, the table staying as it was.  When the body is an object, *)
(* errors holds exactly one formatted message for each failing field and   *)
(* none for the others; when the body is not an object (a JSON array),     *)
(* errors is empty.                                                        *)
(***************************************************************************)
C1_FailingBodyRejected ==
    [][ (ValidatesBody /\ BodyFails(req'.body)) =>
            /\ res'.status = 400
            /\ res'.kind = "errors"
            /\ NoPersistence
            /\ IF req'.body.kind = "object"
               THEN /\ DOMAIN res'.errors = FailingFields(req'.body)
                    /\ \A f \in FailingFields(req'.body) :
                          res'.errors[f] = OwedMessage(req'.body.fields, f)
               ELSE res'.errors = <<>> ]_vars

\* an update of an existing row was refused for a short name and a bad email
C1_Witness ==
    /\ handler = "updateUser"
    /\ IdSegment(req) = "1"
    /\ Ids(users) = {1}
    /\ FailingFields(req.body) = {"name", "email"}
    /\ Has(req.body.fields, "name")
    /\ res = JsonErrors(400, Fields("Name must be at least 2 characters", "Email must be valid"))

(***************************************************************************)
(* C2.  A search with a non-blank query answers 200 with exactly the rows  *)
(* whose name or email contains the query, case ignored.                   *)
(***************************************************************************)
ContainsIgnoringCase(value, q) == includes(toLowerCase(value), toLowerCase(q))

C2_SearchReturnsMatches ==
    (handler = "searchUsers" /\ res.status = 200) =>
        res.list = {u \in users : \/ ContainsIgnoringCase(u.name, req.query.s)
                                  \/ ContainsIgnoringCase(u.email, req.query.s)}

(***************************************************************************)
(* C3.  In getUser, updateUser and deleteUser an id that is absent or      *)
(* does not parse as a number is answered 400 {error: "Invalid user ID"}   *)
(* with no persistence call, whatever the body of an update is.            *)
(***************************************************************************)
C3_InvalidIdRejected ==
    [][ ( /\ Serves("getUser") \/ Serves("updateUser") \/ Serves("deleteUser")
          /\ \/ ~Dispatch(req').params.id.present
             \/ Number(IdSegment(req')).k = "nan" ) =>
            /\ res' = JsonError(400, "Invalid user ID")
            /\ NoPersistence ]_vars

\* an update with an id that is no number and a body that fails the schema
C3_Witness ==
    /\ handler = "updateUser"
    /\ IdSegment(req) = "1abc"
    /\ BodyFails(req.body)
    /\ res = JsonError(400, "Invalid user ID")
    /\ call = NoCall

(***************************************************************************)
(* C4.  Deleting the id of an existing row answers 204 with an empty body  *)
(* and removes that row and no other; a getUser of an id that has no row   *)
(* answers 404 {error: "User not found"}; and an id without a row gets one *)
(* only by a create that assigns it.  (The connection working.)            *)
(***************************************************************************)
C4_DeleteThenNotFound ==
    [][ /\ \A u \in users :
              ( /\ Serves("deleteUser")
                /\ IdSegment(req') = IntToString(u.id)
                /\ ~ConnectionFailure(thrown') ) =>
                  /\ res' = Empty(204)
                  /\ users' = users \ {u}
        /\ \A n \in 1..(MaxId + 1) :
              ( /\ Serves("getUser")
                /\ IdSegment(req') = IntToString(n)
                /\ n \notin Ids(users)
                /\ ~ConnectionFailure(thrown') ) =>
                  res' = JsonError(404, "User not found")
        /\ \A n \in Ids(users') \ Ids(users) :
              /\ Serves("createUser")
              /\ res'.status = 201
              /\ res'.user.id = n ]_vars

\* row 1 was created and deleted, and a getUser of 1 is answered 404
C4_Witness ==
    /\ handler = "getUser"
    /\ IdSegment(req) = "1"
    /\ nextId > 1
    /\ 1 \notin Ids(users)
    /\ res = JsonError(404, "User not found")

(***************************************************************************)
(* C5.  A create with a body that passes the schema answers 201 with a     *)
(* row that has a fresh id, assigned by the table, and the name and email  *)
(* submitted; a getUser of the id of a row answers 200 with that row; and  *)
(* a row changes or goes only by an update or delete of its id.  (The      *)
(* connection working.)                                                    *)
(***************************************************************************)
C5_CreateGetRoundTrip ==
    [][ /\ ( /\ Serves("createUser")
             /\ ~BodyFails(req'.body)
             /\ ~ConnectionFailure(thrown') ) =>
               /\ res'.status = 201
               /\ res'.kind = "user"
               /\ res'.user.id = nextId
               /\ res'.user.id \notin Ids(users)
               /\ res'.user.name = req'.body.fields["name"].s
               /\ res'.user.email = req'.body.fields["email"].s
               /\ users' = users \cup {res'.user}
        /\ \A u \in users :
              ( /\ Serves("getUser")
                /\ IdSegment(req') = IntToString(u.id)
                /\ ~ConnectionFailure(thrown') ) =>
                  res' = JsonUser(200, u)
        /\ \A u \in users \ users' :
              /\ Serves("updateUser") \/ Serves("deleteUser")
              /\ call'.id = Finite(FALSE, u.id, 0) ]_vars

\* the row created first is read back as it was submitted
C5_Witness ==
    /\ handler = "getUser"
    /\ IdSegment(req) = "1"
    /\ res = JsonUser(200, Row(1, "zed", "zed@b.co"))
    /\ res.user \in users

(***************************************************************************)
(* C6.  As claimed: in every handler a failed persistence call is answered *)
(* 500 {error: message} with the failure's own message when it has one,    *)
(* and the generic "Internal Server Error" only otherwise.                 *)
(***************************************************************************)
C6_FailureMessageEverywhere ==
    thrown.thrown =>
        res = JsonError(500, IF thrown.message # "" THEN thrown.message
                             ELSE "Internal Server Error")

(***************************************************************************)
(* C6, amended.  In every handler a failed persistence call is answered    *)
(* 500 {error: message}.  The message is the failure's own message, when   *)
(* it has one, in createUser only; in deleteUser it is the failure's       *)
(* meta.cause when it has one; in every other case, and always in getUser, *)
(* updateUser, listUsers and searchUsers, it is "Internal Server Error".   *)
(***************************************************************************)
C6_FailureAnswered500 ==
    thrown.thrown =>
        /\ res.status = 500
        /\ res.kind = "error"
        /\ res.error =
              IF handler = "createUser" /\ thrown.message # "" THEN thrown.message
              ELSE IF handler = "deleteUser" /\ thrown.cause # "" THEN thrown.cause
              ELSE "Internal Server Error"

\* a getUser whose call failed with a message is answered with the generic one
C6_Witness ==
    /\ handler = "getUser"
    /\ thrown = FaultError("unreachable")
    /\ thrown.message # ""
    /\ res = JsonError(500, "Internal Server Error")

C8_SearchRouteFirst ==
    ( /\ handler # "idle"
      /\ req.method = "GET"
      /\ req.path = <<"api", "users", "search">> ) =>
        /\ handler = "searchUsers"
        /\ ~req.query.present => res = JsonError(400, "Query parameter is required")

\* the search path without a query was served
C8_Witness ==
    /\ handler = "searchUsers"
    /\ req.path = <<"api", "users", "search">>
    /\ ~req.query.present
    /\ res = JsonError(400, "Query parameter is required")

C10_IdIsTruncation ==
    call.op \in {"findUnique", "update", "delete"} =>
        /\ call.id.k = "fin"
        /\ Number(IdSegment(req)).k = "fin"
        /\ IdValue(call.id) = Trunc(Number(IdSegment(req)))

====
